---- MODULE Spec2Model ----
(***************************************************************************)
(* DocShot native acceleration: the directional-gradient kernel            *)
(* (directional_gradient.cpp) and its JNI adapter (jni_bridge.cpp).        *)
(*                                                                         *)
(* C arrays are functions over 0..n-1.  threshold_percentile is a float32; *)
(* it is modelled as the dyadic rational pnum / PDen (exactly              *)
(* representable), and the float32 product of line 81 is modelled with its *)
(* 24-bit significand and round-to-nearest-even.                           *)
(***************************************************************************)
EXTENDS Integers, Sequences, FiniteSets, TLC

VARIABLES
    \* ---- arguments of directional_gradient_accumulate
    rows, cols, margin_y, margin_x, num_angles, kernel_length,
    h_offsets, v_offsets, gy_data, gx_data, pnum, result_data,
    \* ---- locals of directional_gradient_accumulate
    pc, a, h_response, v_response, alloc_h_ok, alloc_v_ok, heap,
    global_max, histogram, target, cum_sum, threshold_val,
    \* ---- history: pixels whose accumulator slot was written, stages run
    visited, stages,
    \* ---- nativeDirectionalGradient (JNI adapter)
    jpc, pins, releases, kernel_calls

kernelVars == <<rows, cols, margin_y, margin_x, num_angles, kernel_length,
                h_offsets, v_offsets, gy_data, gx_data, pnum, result_data,
                pc, a, h_response, v_response, alloc_h_ok, alloc_v_ok, heap,
                global_max, histogram, target, cum_sum, threshold_val,
                visited, stages>>
inputVars == <<rows, cols, margin_y, margin_x, num_angles, kernel_length,
               h_offsets, v_offsets, gy_data, gx_data, pnum>>
localVars == <<a, h_response, v_response, alloc_h_ok, alloc_v_ok, heap,
               global_max, histogram, target, cum_sum, threshold_val,
               visited, stages>>
jniVars == <<jpc, pins, releases, kernel_calls>>
vars == <<kernelVars, jniVars>>

----------------------------------------------------------------------------
\* Bounds of the model
MaxRows == 3
MaxCols == 3
MaxAngles == 2
MaxKernel == 2
\* percentiles are k / 2^PBits
PBits == 2
\* pixel counts 2^24 .. 2^24 + MaxExcess in the selector specification
MaxExcess == 3
\* small pixel counts 1 .. MaxSmallTotal in the selector specification
MaxSmallTotal == 4

\* Program constants
HistBins == 256
MaxLevel == 255
FloatMantissaBits == 24
JNI_COMMIT_FREE == 0
JNI_ABORT == 2

----------------------------------------------------------------------------
\* float32 arithmetic of line 81

RECURSIVE Pow2(_)
Pow2(n) == IF n = 0 THEN 1 ELSE 2 * Pow2(n - 1)

RECURSIVE BitLen(_)
BitLen(n) == IF n = 0 THEN 0 ELSE 1 + BitLen(n \div 2)

PDen == Pow2(PBits)

\* n rounded to FloatMantissaBits significant bits, ties to even
RoundToMantissa(n) ==
    LET len == BitLen(n) IN
    IF len <= FloatMantissaBits THEN n
    ELSE LET ulp  == Pow2(len - FloatMantissaBits)
             q    == n \div ulp
             r    == n % ulp
             half == ulp \div 2
         IN IF r > half \/ (r = half /\ q % 2 = 1)
            THEN (q + 1) * ulp ELSE q * ulp

\* variant: a conversion that chops instead of rounding to nearest
IntToFloatTowardZero(n) ==
    LET len == BitLen(n) IN
    IF len <= FloatMantissaBits THEN n
    ELSE (n \div Pow2(len - FloatMantissaBits)) * Pow2(len - FloatMantissaBits)

\* (float) total_pixels : int -> float32 conversion
IntToFloat(n) == RoundToMantissa(n)

\* static_cast<int>(total_pixels * threshold_percentile), percentile = pn / PDen.
\* The exact product is IntToFloat(total) * pn / PDen; scaling by the power of
\* two PDen does not change the significand, so the numerator is rounded.
ComputeTarget(total, pn) == RoundToMantissa(IntToFloat(total) * pn) \div PDen

----------------------------------------------------------------------------
\* Geometry

total_pixels == rows * cols
Pixels == 0 .. (total_pixels - 1)

\* the (y, x) ranges of the loops of lines 37 and 39, as linear indexes
Interior ==
    { y * cols + x : y \in margin_y .. (rows - margin_y - 1),
                     x \in margin_x .. (cols - margin_x - 1) }

\* caller-enforced precondition on an offset table
ValidOffsets(tab, rs, cs, my, mx) ==
    \A i \in DOMAIN tab :
      \A y \in my .. (rs - my - 1) : \A x \in mx .. (cs - mx - 1) :
        (y * cs + x + tab[i]) \in 0 .. (rs * cs - 1)

----------------------------------------------------------------------------
\* Stage 1: accumulator (lines 33-53)

RECURSIVE TapSumFrom(_, _, _, _, _)
TapSumFrom(img, offs, ang, p, k) ==
    IF k = kernel_length THEN 0
    ELSE img[p + offs[ang * kernel_length + k]] + TapSumFrom(img, offs, ang, p, k + 1)

\* inner k-loop, lines 41-47 (sums stay far below 2^31: kernel_length * 255)
TapSum(img, offs, ang, p) == TapSumFrom(img, offs, ang, p, 0)

\* variant: the angles are added up
UpdateSum(old, sum) == old + sum

\* lines 49-50
UpdateMax(old, sum) == IF sum > old THEN sum ELSE old

\* one iteration of the angle loop over one channel
AccumulateAngle(resp, img, offs, ang) ==
    [p \in Pixels |->
        IF p \in Interior THEN UpdateMax(resp[p], TapSum(img, offs, ang, p))
        ELSE resp[p]]

\* the angle loop run over a sequence of angles
RECURSIVE AccumulateAngles(_, _, _, _)
AccumulateAngles(resp, img, offs, order) ==
    IF order = <<>> THEN resp
    ELSE AccumulateAngles(AccumulateAngle(resp, img, offs, Head(order)),
                          img, offs, Tail(order))

----------------------------------------------------------------------------
\* Stage 2: combiner / normalizer (lines 55-75)

CombinePixel(h, v) == IF h > v THEN h ELSE v

CombineAll(hr, vr) == [p \in Pixels |-> CombinePixel(hr[p], vr[p])]

RECURSIVE GlobalMaxFrom(_, _, _)
GlobalMaxFrom(comb, i, gm) ==
    IF i = total_pixels THEN gm
    ELSE GlobalMaxFrom(comb, i + 1, IF comb[i] > gm THEN comb[i] ELSE gm)

\* variant: global_max starts at 0
ComputeGlobalMaxNoFloor(comb) == GlobalMaxFrom(comb, 0, 0)

\* lines 56-61: global_max starts at 1
ComputeGlobalMax(comb) == GlobalMaxFrom(comb, 0, 1)

\* lines 68-72
NormalizePixel(c, gm) ==
    LET n == (c * MaxLevel) \div gm IN
    IF n < 0 THEN 0 ELSE IF n > MaxLevel THEN MaxLevel ELSE n

NormalizeAll(comb, gm) == [p \in Pixels |-> NormalizePixel(comb[p], gm)]

\* lines 64-65, 74
RECURSIVE BuildHistogramFrom(_, _, _)
BuildHistogramFrom(norm, i, hist) ==
    IF i = total_pixels THEN hist
    ELSE BuildHistogramFrom(norm, i + 1, [hist EXCEPT ![norm[i]] = @ + 1])

EmptyHistogram == [b \in 0 .. (HistBins - 1) |-> 0]

\* variant: the histogram misses pixel 0
BuildHistogramSkipFirst(norm) == BuildHistogramFrom(norm, 1, EmptyHistogram)

BuildHistogram(norm) == BuildHistogramFrom(norm, 0, EmptyHistogram)

----------------------------------------------------------------------------
\* Stage 3: threshold selector (lines 80-90)

\* The loop of lines 84-90 walks the bins one by one carrying cum_sum.  It is
\* evaluated here in tiles of 16 bins (ScanTile inside ScanBins) only to keep
\* the evaluation depth small; the bins are still visited one at a time, in
\* increasing order, with the break of line 88.
RECURSIVE ScanTile(_, _, _, _, _)
ScanTile(hist, tgt, i, cum, end) ==
    IF i = end THEN [found |-> FALSE, threshold |-> MaxLevel, cum |-> cum]
    ELSE LET c == cum + hist[i] IN
         IF c >= tgt THEN [found |-> TRUE, threshold |-> i, cum |-> c]
         ELSE ScanTile(hist, tgt, i + 1, c, end)

RECURSIVE ScanBins(_, _, _, _)
ScanBins(hist, tgt, i, cum) ==
    IF i = HistBins THEN [found |-> FALSE, threshold |-> MaxLevel, cum |-> cum]
    ELSE LET r == ScanTile(hist, tgt, i, cum, i + 16) IN
         IF r.found THEN r ELSE ScanBins(hist, tgt, i + 16, r.cum)

\* variant: the bins are walked from 255 down
RECURSIVE ScanTileDown(_, _, _, _, _)
ScanTileDown(hist, tgt, i, cum, end) ==
    IF i = end THEN [found |-> FALSE, threshold |-> MaxLevel, cum |-> cum]
    ELSE LET c == cum + hist[i] IN
         IF c >= tgt THEN [found |-> TRUE, threshold |-> i, cum |-> c]
         ELSE ScanTileDown(hist, tgt, i - 1, c, end)

RECURSIVE ScanBinsDown(_, _, _, _)
ScanBinsDown(hist, tgt, i, cum) ==
    IF i < 0 THEN [found |-> FALSE, threshold |-> MaxLevel, cum |-> cum]
    ELSE LET r == ScanTileDown(hist, tgt, i, cum, i - 16) IN
         IF r.found THEN r ELSE ScanBinsDown(hist, tgt, i - 16, r.cum)

SelectScanDescending(hist, tgt) == ScanBinsDown(hist, tgt, HistBins - 1, 0)

\* variant: the walk starts at bin 1
SelectScanFromOne(hist, tgt) ==
    LET r == ScanTile(hist, tgt, 1, 0, 16) IN
    IF r.found THEN r ELSE ScanBins(hist, tgt, 16, r.cum)

SelectScan(hist, tgt) == ScanBins(hist, tgt, 0, 0)

----------------------------------------------------------------------------
\* Stage 4: binarizer (lines 92-95)

\* variant: >= in place of >
BinarizeNonStrict(n, t) == IF n >= t THEN MaxLevel ELSE 0

\* variant: the level is kept instead of 255
BinarizeKeepLevel(n, t) == IF n > t THEN n ELSE 0

BinarizePixel(n, t) == IF n > t THEN MaxLevel ELSE 0

BinarizeAll(norm, t) == [p \in DOMAIN norm |-> BinarizePixel(norm[p], t)]

----------------------------------------------------------------------------
\* Inputs

ZeroImage(n) == [p \in 0 .. (n - 1) |-> 0]
UniformImage(n, v) == [p \in 0 .. (n - 1) |-> v]
HotImage(n, v) == [p \in 0 .. (n - 1) |-> IF p = n \div 2 THEN v ELSE 0]
RampImage(n) == [p \in 0 .. (n - 1) |-> (p * 40) % 256]

\* pairs <<|Gy|, |Gx|>> of 8-bit gradient images of n pixels
ImagePairs(n) ==
    { <<ZeroImage(n), ZeroImage(n)>>,
      <<HotImage(n, 100), HotImage(n, 50)>>,
      <<RampImage(n), UniformImage(n, 255)>>,
      <<UniformImage(n, 255), RampImage(n)>>,
      <<RampImage(n), ZeroImage(n)>> }

\* offset tables [angle][tap], flat: angle ang samples along step[ang]
OffsetTable(na, kl, step) == [i \in 0 .. (na * kl - 1) |-> step[i \div kl] * (i % kl)]

Margins(n) == { m \in 0 .. 1 : 2 * m < n }

\* what the caller's output buffer holds before the call
Garbage(n) == [p \in 0 .. (n - 1) |-> 77]

NoArray == <<>>

LocalsInit ==
    /\ a = 0
    /\ h_response = NoArray
    /\ v_response = NoArray
    /\ alloc_h_ok = FALSE
    /\ alloc_v_ok = FALSE
    /\ heap = {}
    /\ global_max = 0
    /\ histogram = NoArray
    /\ target = 0
    /\ cum_sum = 0
    /\ threshold_val = 0
    /\ visited = {}
    /\ stages = <<>>

InputsInit ==
    \E rs \in {1, MaxRows}, cs \in {1, MaxCols - 1, MaxCols} :
    \E my \in Margins(rs), mx \in Margins(cs) :
    \E na \in 1 .. MaxAngles, kl \in 1 .. MaxKernel :
    \E hs \in [0 .. (na - 1) -> {0, 1}], vs \in [0 .. (na - 1) -> {0, -cs}] :
    \E img \in ImagePairs(rs * cs), pn \in 0 .. PDen :
        /\ ValidOffsets(OffsetTable(na, kl, hs), rs, cs, my, mx)
        /\ ValidOffsets(OffsetTable(na, kl, vs), rs, cs, my, mx)
        /\ rows = rs /\ cols = cs /\ margin_y = my /\ margin_x = mx
        /\ num_angles = na /\ kernel_length = kl
        /\ h_offsets = OffsetTable(na, kl, hs)
        /\ v_offsets = OffsetTable(na, kl, vs)
        /\ gy_data = img[1] /\ gx_data = img[2]
        /\ pnum = pn
        /\ result_data = Garbage(rs * cs)

Arrays == {"gy", "gx", "result", "h_offsets", "v_offsets"}

\* the kernel called directly, without the adapter
JniAbsent ==
    /\ jpc = "direct"
    /\ pins = [x \in Arrays |-> "pinned"]
    /\ releases = <<>>
    /\ kernel_calls = 0

Init == InputsInit /\ LocalsInit /\ pc = "entry" /\ JniAbsent

----------------------------------------------------------------------------
\* directional_gradient_accumulate

\* lines 18-24, both calloc calls succeed
AllocOk ==
    /\ pc = "entry"
    /\ alloc_h_ok' = TRUE /\ alloc_v_ok' = TRUE
    /\ h_response' = ZeroImage(total_pixels)
    /\ v_response' = ZeroImage(total_pixels)
    /\ heap' = {"h_response", "v_response"}
    /\ a' = 0
    /\ pc' = "accumulate"
    /\ UNCHANGED <<inputVars, result_data, global_max, histogram, target,
                   cum_sum, threshold_val, visited, stages, jniVars>>

\* variant: the memset is missing
ZeroFillNothing(buf) == buf

\* line 27
ZeroFill(buf) == [p \in DOMAIN buf |-> 0]

\* lines 18-29, at least one calloc returns NULL
AllocFail ==
    /\ pc = "entry"
    /\ \E okh, okv \in BOOLEAN :
         /\ ~(okh /\ okv)
         /\ alloc_h_ok' = okh /\ alloc_v_ok' = okv
    \* free(NULL) is a no-op; the buffer that was obtained is released
    /\ heap' = {}
    /\ h_response' = NoArray /\ v_response' = NoArray
    /\ result_data' = ZeroFill(result_data)
    /\ pc' = "done"
    /\ UNCHANGED <<inputVars, a, global_max, histogram, target,
                   cum_sum, threshold_val, visited, stages, jniVars>>

\* lines 33-53, one iteration of the angle loop
AccumulateStep ==
    /\ pc = "accumulate"
    /\ a < num_angles
    /\ h_response' = AccumulateAngle(h_response, gy_data, h_offsets, a)
    /\ v_response' = AccumulateAngle(v_response, gx_data, v_offsets, a)
    /\ visited' = visited \cup Interior
    /\ a' = a + 1
    /\ stages' = IF a = 0 THEN Append(stages, "accumulate") ELSE stages
    /\ UNCHANGED <<inputVars, result_data, pc, alloc_h_ok, alloc_v_ok, heap,
                   global_max, histogram, target, cum_sum, threshold_val, jniVars>>

\* line 33, loop exit
AccumulateDone ==
    /\ pc = "accumulate"
    /\ a >= num_angles
    /\ pc' = "combine"
    /\ UNCHANGED <<inputVars, result_data, localVars, jniVars>>

\* lines 55-61
Combine ==
    /\ pc = "combine"
    /\ h_response' = CombineAll(h_response, v_response)
    /\ global_max' = ComputeGlobalMax(CombineAll(h_response, v_response))
    /\ stages' = Append(stages, "combine")
    /\ pc' = "normalize"
    /\ UNCHANGED <<inputVars, result_data, a, v_response, alloc_h_ok, alloc_v_ok,
                   heap, histogram, target, cum_sum, threshold_val, visited, jniVars>>

\* lines 63-78
Normalize ==
    /\ pc = "normalize"
    /\ result_data' = NormalizeAll(h_response, global_max)
    /\ histogram' = BuildHistogram(NormalizeAll(h_response, global_max))
    /\ heap' = {}
    /\ h_response' = NoArray /\ v_response' = NoArray
    /\ stages' = Append(stages, "normalize")
    /\ pc' = "select"
    /\ UNCHANGED <<inputVars, a, alloc_h_ok, alloc_v_ok, global_max, target,
                   cum_sum, threshold_val, visited, jniVars>>

\* lines 80-90
SelectThreshold ==
    /\ pc = "select"
    /\ target' = ComputeTarget(total_pixels, pnum)
    /\ LET r == SelectScan(histogram, ComputeTarget(total_pixels, pnum)) IN
         /\ threshold_val' = r.threshold
         /\ cum_sum' = r.cum
    /\ stages' = Append(stages, "select")
    /\ pc' = "binarize"
    /\ UNCHANGED <<inputVars, result_data, a, h_response, v_response, alloc_h_ok,
                   alloc_v_ok, heap, global_max, histogram, visited, jniVars>>

\* lines 92-96
Binarize ==
    /\ pc = "binarize"
    /\ result_data' = BinarizeAll(result_data, threshold_val)
    /\ stages' = Append(stages, "binarize")
    /\ pc' = "done"
    /\ UNCHANGED <<inputVars, a, h_response, v_response, alloc_h_ok, alloc_v_ok,
                   heap, global_max, histogram, target, cum_sum, threshold_val,
                   visited, jniVars>>

KernelNext ==
    \/ AllocOk
    \/ AllocFail
    \/ AccumulateStep
    \/ AccumulateDone
    \/ Combine
    \/ Normalize
    \/ SelectThreshold
    \/ Binarize

Next == KernelNext

Spec == Init /\ [][Next]_vars

----------------------------------------------------------------------------
\* The threshold selector on its own, for pixel counts up to 2^24 + MaxExcess.
\* The call is at line 80: the histogram of an image of rows*cols pixels has
\* been built and the buffers freed.  The pixel arrays of such an image are
\* not represented (NoArray), nor is the history of visited pixels.

PixelCounts ==
    (1 .. MaxSmallTotal)
      \cup { Pow2(FloatMantissaBits) + j : j \in 0 .. MaxExcess }

CountChoices(n) == { c \in {0, 1, n \div 2, n - 2, n - 1} : c >= 0 }

\* histograms a normalized image of n pixels can have: every pixel in bin 0
\* (all-zero responses), or at least one pixel in bin 255 (the global maximum)
Histograms(n) ==
    { [EmptyHistogram EXCEPT ![0] = n] }
      \cup { [[[EmptyHistogram EXCEPT ![0] = c0] EXCEPT ![mid] = c1]
                  EXCEPT ![MaxLevel] = n - c0 - c1] :
                <<c0, c1, mid>> \in
                  { t \in CountChoices(n) \X CountChoices(n) \X {1, 128, 254} :
                      t[1] + t[2] < n } }

InitSelect ==
    /\ \E n \in PixelCounts, pn \in 0 .. (PDen + 1) :
       \E hist \in Histograms(n) :
         /\ rows = 1 /\ cols = n /\ margin_y = 0 /\ margin_x = 0
         /\ num_angles = 1 /\ kernel_length = 1
         /\ h_offsets = OffsetTable(1, 1, [i \in {0} |-> 0])
         /\ v_offsets = OffsetTable(1, 1, [i \in {0} |-> 0])
         /\ pnum = pn
         /\ histogram = hist
         /\ global_max = IF hist[0] = n THEN 1 ELSE MaxLevel
    /\ gy_data = NoArray /\ gx_data = NoArray /\ result_data = NoArray
    /\ a = 1
    /\ h_response = NoArray /\ v_response = NoArray
    /\ alloc_h_ok = TRUE /\ alloc_v_ok = TRUE
    /\ heap = {}
    /\ target = 0 /\ cum_sum = 0 /\ threshold_val = 0
    /\ visited = {}
    /\ stages = <<"accumulate", "combine", "normalize">>
    /\ pc = "select"
    /\ JniAbsent

NextSelect == SelectThreshold

SpecSelect == InitSelect /\ [][NextSelect]_vars

----------------------------------------------------------------------------
\* Java_com_docshot_cv_NativeAccel_nativeDirectionalGradient (jni_bridge.cpp)

\* GetPrimitiveArrayCritical returns a pointer or NULL
Pin(arr, at, next) ==
    /\ jpc = at
    /\ \E ok \in BOOLEAN :
         pins' = [pins EXCEPT ![arr] = IF ok THEN "pinned" ELSE "null"]
    /\ jpc' = next
    /\ UNCHANGED <<kernelVars, releases, kernel_calls>>

\* lines 16-17
PinGy == Pin("gy", "pin_gy", "pin_gx")
\* lines 18-19
PinGx == Pin("gx", "pin_gx", "pin_result")
\* lines 20-21
PinResult == Pin("result", "pin_result", "pin_h")
\* lines 22-23
PinHOffsets == Pin("h_offsets", "pin_h", "pin_v")
\* lines 24-25
PinVOffsets == Pin("v_offsets", "pin_v", "call")

\* variant: || in place of &&
AnyPinned == \E x \in Arrays : pins[x] = "pinned"

\* line 27
AllPinned == \A x \in Arrays : pins[x] = "pinned"

\* lines 27-35, the guard holds: the kernel is entered
CallKernel ==
    /\ jpc = "call" /\ AllPinned
    /\ pc = "idle"
    /\ pc' = "entry"
    /\ kernel_calls' = kernel_calls + 1
    /\ jpc' = "in_kernel"
    /\ UNCHANGED <<inputVars, result_data, localVars, pins, releases>>

\* line 27, the guard fails
SkipKernel ==
    /\ jpc = "call" /\ ~AllPinned
    /\ jpc' = "rel_v"
    /\ UNCHANGED <<kernelVars, pins, releases, kernel_calls>>

\* line 35, the kernel has returned
KernelReturn ==
    /\ jpc = "in_kernel" /\ pc = "done"
    /\ jpc' = "rel_v"
    /\ UNCHANGED <<kernelVars, pins, releases, kernel_calls>>

\* if (ptr) env->ReleasePrimitiveArrayCritical(array, ptr, mode)
Release(arr, mode, at, next) ==
    /\ jpc = at
    /\ IF pins[arr] = "pinned"
       THEN /\ pins' = [pins EXCEPT ![arr] = "released"]
            /\ releases' = Append(releases, [array |-> arr, mode |-> mode])
       ELSE UNCHANGED <<pins, releases>>
    /\ jpc' = next
    /\ UNCHANGED <<kernelVars, kernel_calls>>

\* line 39
ReleaseVOffsets == Release("v_offsets", JNI_ABORT, "rel_v", "rel_h")
\* line 40
ReleaseHOffsets == Release("h_offsets", JNI_ABORT, "rel_h", "rel_result")
\* line 41
ReleaseResult == Release("result", JNI_COMMIT_FREE, "rel_result", "rel_gx")
\* line 42
ReleaseGx == Release("gx", JNI_ABORT, "rel_gx", "rel_gy")
\* line 43
ReleaseGy == Release("gy", JNI_ABORT, "rel_gy", "returned")

\* the Java caller's arguments: a MaxRows x MaxCols image with margin 1
InitJni ==
    /\ \E img \in ImagePairs(MaxRows * MaxCols), pn \in 0 .. PDen :
         /\ rows = MaxRows /\ cols = MaxCols /\ margin_y = 1 /\ margin_x = 1
         /\ num_angles = 1 /\ kernel_length = 1
         /\ h_offsets = OffsetTable(1, 1, [i \in {0} |-> 0])
         /\ v_offsets = OffsetTable(1, 1, [i \in {0} |-> 0])
         /\ gy_data = img[1] /\ gx_data = img[2]
         /\ pnum = pn
         /\ result_data = Garbage(MaxRows * MaxCols)
    /\ LocalsInit
    /\ pc = "idle"
    /\ jpc = "pin_gy"
    /\ pins = [x \in Arrays |-> "none"]
    /\ releases = <<>>
    /\ kernel_calls = 0

NextJni ==
    \/ PinGy
    \/ PinGx
    \/ PinResult
    \/ PinHOffsets
    \/ PinVOffsets
    \/ CallKernel
    \/ SkipKernel
    \/ KernelNext
    \/ KernelReturn
    \/ ReleaseVOffsets
    \/ ReleaseHOffsets
    \/ ReleaseResult
    \/ ReleaseGx
    \/ ReleaseGy

SpecJni == InitJni /\ [][NextJni]_vars

----------------------------------------------------------------------------
\* Helpers of the properties

AllocSucceeded == alloc_h_ok /\ alloc_v_ok
Margin == Pixels \ Interior
Count255(img) == Cardinality({p \in DOMAIN img : img[p] = MaxLevel})
CountAtMost(img, t) == Cardinality({p \in DOMAIN img : img[p] <= t})
MaxOf(S) == CHOOSE m \in S : \A x \in S : m >= x
Angles == 0 .. (num_angles - 1)
AngleOrders == { s \in [1 .. num_angles -> Angles] :
                   \A i, j \in 1 .. num_angles : i # j => s[i] # s[j] }
AngleSums(img, offs, p) == { TapSum(img, offs, ang, p) : ang \in Angles }
ThresholdFor(q) == SelectScan(histogram, ComputeTarget(total_pixels, q)).threshold

----------------------------------------------------------------------------
\* C1: when directional_gradient_accumulate has returned, every one of the
\* rows*cols output pixels is exactly 0 or 255, on the normal path and on the
\* allocation-failure path alike.
C1_BinaryOutput ==
    pc = "done" =>
        /\ DOMAIN result_data = Pixels
        /\ \A p \in Pixels : result_data[p] \in {0, MaxLevel}

\* the normal path returned; the normalized image held an intermediate level
\* and the output holds both values
C1_Witness ==
    /\ pc = "done" /\ AllocSucceeded
    /\ \E b \in 1 .. (MaxLevel - 1) : histogram[b] > 0
    /\ \E p, q \in Pixels : result_data[p] = MaxLevel /\ result_data[q] = 0

\* C2: if either calloc fails, the call runs no stage, writes 0 to every output
\* pixel, leaves the gradient images and offset tables unchanged, keeps no
\* accumulator buffer allocated and returns (the function is void: there is no
\* status to return); after the return nothing of the call changes any more.
C2_AllocFailureZeroFill ==
    [][ /\ (pc = "entry" /\ ~(alloc_h_ok' /\ alloc_v_ok')) =>
            /\ pc' = "done"
            /\ result_data' = ZeroImage(total_pixels)
            /\ UNCHANGED <<gy_data, gx_data, h_offsets, v_offsets>>
            /\ heap' = {}
            /\ stages' = <<>> /\ visited' = {}
            /\ histogram' = NoArray /\ global_max' = global_max
        /\ pc = "done" => UNCHANGED kernelVars ]_vars

\* one calloc succeeded and the other failed; the call has returned
C2_Witness ==
    /\ pc = "done" /\ alloc_h_ok /\ ~alloc_v_ok
    /\ \E p \in Pixels : gy_data[p] > 0
    /\ result_data = ZeroImage(total_pixels)
    /\ heap = {}

\* C3: a pixel outside [margin_y, rows-margin_y) x [margin_x, cols-margin_x) is
\* never visited by the accumulator, keeps response 0 in both channels while
\* the accumulator buffers live, and is 0 in the final output.
C3_MarginUntouched ==
    pc # "idle" =>
      \A p \in Margin :
        /\ p \notin visited
        /\ heap # {} => (h_response[p] = 0 /\ v_response[p] = 0)
        /\ pc = "done" => result_data[p] = 0

\* a margin pixel with a nonzero gradient sample, an interior pixel set to 255
C3_Witness ==
    /\ pc = "done" /\ AllocSucceeded
    /\ \E p \in Margin : gy_data[p] > 0 /\ gx_data[p] > 0
    /\ \E q \in Interior : result_data[q] = MaxLevel

\* C5 (as stated): the selected threshold is the smallest level t with
\* count(normalized <= t) >= percentile * total_pixels.
C5_Original ==
    pc = "binarize" =>
        /\ CountAtMost(result_data, threshold_val) * PDen >= pnum * total_pixels
        /\ \A t \in 0 .. (threshold_val - 1) :
              CountAtMost(result_data, t) * PDen < pnum * total_pixels

\* C5 (amended): the selected threshold is the smallest level t with
\* count(normalized <= t) >= target, where target is the product
\* total_pixels * percentile truncated to an integer, here
\* floor(percentile * total_pixels); it is 255 if no level reaches target.
C5_SmallestLevelReachingTarget ==
    pc = "binarize" =>
        /\ target = (pnum * total_pixels) \div PDen
        /\ \A t \in 0 .. (threshold_val - 1) : CountAtMost(result_data, t) < target
        /\ \/ CountAtMost(result_data, threshold_val) >= target
           \/ threshold_val = MaxLevel

\* percentile * total_pixels is not an integer and the threshold is above 0
C5_Witness ==
    /\ pc = "binarize"
    /\ (pnum * total_pixels) % PDen # 0
    /\ threshold_val > 0 /\ threshold_val < MaxLevel

\* C6: for the histogram of one normalized image, a percentile q below the
\* percentile p of the call selects a threshold that is not larger, and
\* binarizing with p yields no more 255 pixels than binarizing with q.
C6_Monotone ==
    pc = "binarize" =>
      \A q \in 0 .. pnum :
        /\ ThresholdFor(q) <= threshold_val
        /\ Count255(BinarizeAll(result_data, threshold_val))
              <= Count255(BinarizeAll(result_data, ThresholdFor(q)))

\* a smaller percentile that selects a strictly smaller threshold and yields
\* strictly more 255 pixels
C6_Witness ==
    /\ pc = "binarize"
    /\ \E q \in 0 .. pnum :
         /\ ThresholdFor(q) < threshold_val
         /\ Count255(BinarizeAll(result_data, threshold_val))
               < Count255(BinarizeAll(result_data, ThresholdFor(q)))

\* C7: after the angle loop, the response of every interior pixel is, in each
\* channel, the maximum over the angles of that angle's tap sum (so not their
\* total when that differs), and every order of the angles gives the same
\* buffers.
C7_MaxOverAngles ==
    pc = "combine" =>
        /\ \A p \in Interior :
              /\ h_response[p] = MaxOf(AngleSums(gy_data, h_offsets, p))
              /\ v_response[p] = MaxOf(AngleSums(gx_data, v_offsets, p))
        /\ \A order \in AngleOrders :
              /\ AccumulateAngles(ZeroImage(total_pixels), gy_data, h_offsets, order)
                    = h_response
              /\ AccumulateAngles(ZeroImage(total_pixels), gx_data, v_offsets, order)
                    = v_response

\* two angles whose tap sums differ at a pixel, the earlier one larger, both > 0
C7_Witness ==
    /\ pc = "combine" /\ num_angles >= 2
    /\ \E p \in Interior :
         /\ TapSum(gy_data, h_offsets, 0, p) > TapSum(gy_data, h_offsets, 1, p)
         /\ TapSum(gy_data, h_offsets, 1, p) > 0
         /\ h_response[p] = TapSum(gy_data, h_offsets, 0, p)

\* C8: when the pixels are about to be normalized, global_max is at least 1 and
\* at least the combined response of every pixel (which h_response holds).
C8_GlobalMaxFloor ==
    pc = "normalize" =>
        /\ global_max >= 1
        /\ \A p \in Pixels :
              /\ global_max >= h_response[p]
              /\ h_response[p] >= v_response[p]

\* both gradient images are entirely zero and global_max is the floor 1
C8_Witness ==
    /\ pc = "normalize"
    /\ gy_data = ZeroImage(total_pixels) /\ gx_data = ZeroImage(total_pixels)
    /\ global_max = 1

----------------------------------------------------------------------------
\* Helpers of the selector and adapter properties

RECURSIVE SumOver(_, _)
SumOver(hist, S) ==
    IF S = {} THEN 0
    ELSE LET b == CHOOSE x \in S : TRUE IN hist[b] + SumOver(hist, S \ {b})

\* histogram[0] + ... + histogram[i]
Support == { b \in 0 .. (HistBins - 1) : histogram[b] > 0 }
CumIn(sup, i) == SumOver(histogram, { b \in sup : b <= i })
Cum(i) == CumIn(Support, i)
ReachingBins ==
    LET sup == Support IN { i \in 0 .. (HistBins - 1) : CumIn(sup, i) >= target }

\* (float) n > n, for 2^24 < n < 2^25 (floats are 2 apart, ties go to even)
ConversionRoundsUp(n) ==
    /\ n > Pow2(FloatMantissaBits) /\ n < 2 * Pow2(FloatMantissaBits)
    /\ n % 4 = 3

C9_Original ==
    (pc = "binarize" /\ pnum <= PDen) =>
        /\ target <= total_pixels
        /\ ReachingBins # {}

\* C9 (amended): no bin reaches target exactly when target > total_pixels, and
\* then the threshold is 255; for a percentile in [0,1] target <= total_pixels
\* and the selected bin reaches target, unless (float) total_pixels rounds up;
\* when it rounds up and the percentile is 1.0, target > total_pixels.
C9_DefaultOnlyAboveTotal ==
    pc = "binarize" =>
        /\ ReachingBins = {} <=> target > total_pixels
        /\ target > total_pixels => (threshold_val = MaxLevel /\ cum_sum < target)
        /\ (pnum <= PDen /\ ~ConversionRoundsUp(total_pixels)) =>
              (target <= total_pixels /\ cum_sum >= target)
        /\ (pnum = PDen /\ ConversionRoundsUp(total_pixels)) =>
              target > total_pixels

\* a percentile above 1: no bin reaches target and the threshold is the default
C9_Witness ==
    /\ pc = "binarize"
    /\ pnum > PDen
    /\ target > total_pixels
    /\ ReachingBins = {}
    /\ threshold_val = MaxLevel

\* the releases expected of a call, in the order of lines 39-43
PinSucceeded(x) == pins[x] \in {"pinned", "released"}
ReleaseOrder ==
    << [array |-> "v_offsets", mode |-> JNI_ABORT],
       [array |-> "h_offsets", mode |-> JNI_ABORT],
       [array |-> "result", mode |-> JNI_COMMIT_FREE],
       [array |-> "gx", mode |-> JNI_ABORT],
       [array |-> "gy", mode |-> JNI_ABORT] >>
ReleasedOf(r) == PinSucceeded(r.array)

\* C10: the kernel is invoked iff all five pins succeeded; every array whose
\* pin succeeded is released exactly once, after the kernel call if there was
\* one, in reverse order of pinning; an array whose pin failed is not released;
\* only the result array is released with mode 0 (copy back), the inputs with
\* JNI_ABORT.
C10_PinReleaseDiscipline ==
    /\ kernel_calls \in {0, 1}
    /\ (kernel_calls = 1) => (\A x \in Arrays : PinSucceeded(x))
    /\ jpc \in {"pin_gy", "pin_gx", "pin_result", "pin_h", "pin_v", "call", "in_kernel"}
          => (releases = <<>> /\ \A x \in Arrays : pins[x] # "released")
    /\ pc \notin {"idle", "done"}
          => (jpc = "in_kernel" /\ \A x \in Arrays : pins[x] = "pinned")
    /\ jpc \in {"rel_v", "rel_h", "rel_result", "rel_gx", "rel_gy", "returned"}
          => /\ (kernel_calls = 1) <=> (\A x \in Arrays : PinSucceeded(x))
             /\ kernel_calls = 1 => pc = "done"
             /\ kernel_calls = 0 => pc = "idle"
    /\ jpc = "returned"
          => /\ releases = SelectSeq(ReleaseOrder, ReleasedOf)
             /\ \A x \in Arrays : pins[x] \in {"released", "null"}

\* all five pins succeeded, the kernel ran and wrote a 255, five releases
C10_Witness ==
    /\ jpc = "returned"
    /\ kernel_calls = 1
    /\ Len(releases) = 5
    /\ \E p \in Pixels : result_data[p] = MaxLevel

====
